---- MODULE Spec2Model ----
(***************************************************************************)
(* The retrieval-augmented answer pipeline of the Athena Cloud Functions:  *)
(* the getAIResponse callable (functions/src/index.ts) and the AIService   *)
(* it drives (functions/src/services/aiService.ts).                        *)
(*                                                                         *)
(* Similarities are JavaScript numbers.  They are modelled as IEEE-754     *)
(* binary64 values with round-to-nearest-even, on top of natural numbers   *)
(* of arbitrary size, so that NaN, ties and last-bit rounding are the      *)
(* ones the code produces.                                                 *)
(***************************************************************************)
EXTENDS Integers, Sequences, FiniteSets

(* ---------- natural numbers of arbitrary size: little-endian limbs ---------- *)
LimbBits == 13
LimbBase == 8192
\* bits of the significand of a binary64 number
MantissaBits == 53
\* bits settled per step of a division or square root
DigitBits == 4

Pow2Table == <<1, 2, 4, 8, 16, 32, 64, 128, 256, 512, 1024, 2048, 4096, 8192>>
Pow2(k) == Pow2Table[k + 1]

Max(S) == CHOOSE m \in S : \A o \in S : o <= m
Min(S) == CHOOSE m \in S : \A o \in S : m <= o

LimbAt(x, i) == IF i >= 1 /\ i <= Len(x) THEN x[i] ELSE 0
Zeros(n) == [i \in 1..n |-> 0]

\* drop the leading zero limbs
BNorm(x) == LET nz == {i \in 1..Len(x) : x[i] # 0}
            IN  IF nz = {} THEN <<>> ELSE SubSeq(x, 1, Max(nz))

BFromNat(n) == BNorm(<<n % LimbBase, (n \div LimbBase) % LimbBase, n \div (LimbBase * LimbBase)>>)

\* carries are looked ahead: limb j generates one, limbs j+1..i-1 propagate it
BAdd(x, y) ==
    LET n == IF Len(x) > Len(y) THEN Len(x) ELSE Len(y)
        s(i) == LimbAt(x, i) + LimbAt(y, i)
        c(i) == IF \E j \in 1..(i - 1) :
                      s(j) >= LimbBase /\ \A l \in (j + 1)..(i - 1) : s(l) = LimbBase - 1
                THEN 1 ELSE 0
    IN  BNorm([i \in 1..(n + 1) |-> (s(i) + c(i)) % LimbBase])

BCmp(x, y) ==
    IF Len(x) # Len(y) THEN (IF Len(x) < Len(y) THEN -1 ELSE 1)
    ELSE LET diff == {i \in 1..Len(x) : x[i] # y[i]}
         IN  IF diff = {} THEN 0 ELSE IF x[Max(diff)] < y[Max(diff)] THEN -1 ELSE 1

\* column sums of the schoolbook product; the shorter factor has at most 5 limbs
BMulShort(x, y) ==
    LET term(i, k) == IF i <= Len(x) /\ k + 1 - i >= 1 /\ k + 1 - i <= Len(y)
                      THEN x[i] * y[k + 1 - i] ELSE 0
        col(k) == term(1, k) + term(2, k) + term(3, k) + term(4, k) + term(5, k)
        n == Len(x) + Len(y) - 1
    IN  BAdd(BAdd([k \in 1..n |-> col(k) % LimbBase],
                  <<0>> \o [k \in 1..n |-> (col(k) \div LimbBase) % LimbBase]),
             <<0, 0>> \o [k \in 1..n |-> col(k) \div (LimbBase * LimbBase)])
BMul(x, y) == IF x = <<>> \/ y = <<>> THEN <<>>
              ELSE IF Len(x) <= Len(y) THEN BMulShort(x, y) ELSE BMulShort(y, x)

BShl(x, k) == IF x = <<>> THEN <<>>
              ELSE Zeros(k \div LimbBits) \o BMul(x, <<Pow2(k % LimbBits)>>)
BShr(x, k) ==
    LET q == k \div LimbBits
        r == k % LimbBits
        limb(i) == (LimbAt(x, q + i) \div Pow2(r)) + (LimbAt(x, q + i + 1) % Pow2(r)) * Pow2(LimbBits - r)
    IN  IF q >= Len(x) THEN <<>> ELSE BNorm([i \in 1..(Len(x) - q) |-> limb(i)])
BBit(x, k) == (LimbAt(x, (k \div LimbBits) + 1) \div Pow2(k % LimbBits)) % 2
\* some bit below position k is set
BLowNonZero(x, k) ==
    \E i \in 1..Len(x) : \/ i <= k \div LimbBits /\ x[i] # 0
                         \/ i = (k \div LimbBits) + 1 /\ x[i] % Pow2(k % LimbBits) # 0

NatBitLen(n) == CHOOSE b \in 0..LimbBits : n < Pow2(b) /\ (b = 0 \/ n >= Pow2(b - 1))
BBitLen(x) == IF x = <<>> THEN 0 ELSE LimbBits * (Len(x) - 1) + NatBitLen(x[Len(x)])

Digit(c, k) == IF c = 0 THEN <<>> ELSE BShl(<<c>>, k)

RECURSIVE BDivFrom(_, _, _, _)
\* largest q (bits at and below k + 3 still free) with q * d <= n; the four
\* bits of the digit at k are settled from the highest down
BDivFrom(n, d, q, k) ==
    IF k < 0 THEN q
    ELSE LET fits(c) == BCmp(BMul(BAdd(q, Digit(c, k)), d), n) <= 0
             settle(c, bit) == c + (IF fits(c + bit) THEN bit ELSE 0)
             rest(c) == IF c = 0 THEN BDivFrom(n, d, q, k - DigitBits)
                        ELSE BDivFrom(n, d, BAdd(q, Digit(c, k)), k - DigitBits)
         IN  rest(settle(settle(settle(settle(0, 8), 4), 2), 1))
\* floor(n / d)
BDiv(n, d) == BDivFrom(n, d, <<>>, DigitBits * (BBitLen(n) \div DigitBits))

RECURSIVE BDivSmallAt(_, _, _, _)
\* quotient limbs and remainder of the limbs i..1 of x after remainder r
BDivSmallAt(x, d, i, r) ==
    LET glue(rest, cur) == [q |-> rest.q \o <<cur \div d>>, r |-> rest.r]
        step(cur) == glue(BDivSmallAt(x, d, i - 1, cur % d), cur)
    IN  IF i = 0 THEN [q |-> <<>>, r |-> r] ELSE step(r * LimbBase + x[i])
\* quotient and remainder for a divisor below 2 * LimbBase
BDivSmall(x, d) ==
    LET normal(res) == [q |-> BNorm(res.q), r |-> res.r]
    IN  normal(BDivSmallAt(x, d, Len(x), 0))

RECURSIVE BSqrtFrom(_, _, _)
\* largest r (bits at and below k + 3 still free) with r * r <= n
BSqrtFrom(n, r, k) ==
    IF k < 0 THEN r
    ELSE LET square(x) == BMul(x, x)
             fits(c) == BCmp(square(BAdd(r, Digit(c, k))), n) <= 0
             settle(c, bit) == c + (IF fits(c + bit) THEN bit ELSE 0)
             rest(c) == IF c = 0 THEN BSqrtFrom(n, r, k - DigitBits)
                        ELSE BSqrtFrom(n, BAdd(r, Digit(c, k)), k - DigitBits)
         IN  rest(settle(settle(settle(settle(0, 8), 4), 2), 1))
\* floor(sqrt(n))
BSqrt(n) == BSqrtFrom(n, <<>>, DigitBits * ((BBitLen(n) \div 2) \div DigitBits))

(* ---------- IEEE-754 binary64 values: NaN, 0, infinities and (-1)^neg * m * 2^e ---------- *)
NaN == [cls |-> "nan", neg |-> FALSE, m |-> <<>>, e |-> 0]
Zero == [cls |-> "zero", neg |-> FALSE, m |-> <<>>, e |-> 0]
Infinity(neg) == [cls |-> "inf", neg |-> neg, m |-> <<>>, e |-> 0]

\* round-to-nearest, ties-to-even, of M * 2^e (plus a positive residue when sticky)
RoundNearestEven(neg, M, e, sticky) ==
    LET L == BBitLen(M) IN
    IF L <= MantissaBits
    THEN [cls |-> "num", neg |-> neg, m |-> BShl(M, MantissaBits - L), e |-> e - (MantissaBits - L)]
    ELSE LET sh == L - MantissaBits
             q == BShr(M, sh)
             guard == BBit(M, sh - 1) = 1
             rest == sticky \/ BLowNonZero(M, sh - 1)
             up == guard /\ (rest \/ BBit(q, 0) = 1)
             q1 == IF up THEN BAdd(q, <<1>>) ELSE q
         IN  IF BBitLen(q1) > MantissaBits
             THEN [cls |-> "num", neg |-> neg, m |-> BShr(q1, 1), e |-> e + sh + 1]
             ELSE [cls |-> "num", neg |-> neg, m |-> q1, e |-> e + sh]

FromInt(n) == IF n = 0 THEN Zero
              ELSE RoundNearestEven(n < 0, BFromNat(IF n < 0 THEN -n ELSE n), 0, FALSE)

FMul(x, y) ==
    IF x.cls = "nan" \/ y.cls = "nan" THEN NaN
    ELSE IF x.cls = "inf" \/ y.cls = "inf"
         THEN (IF x.cls = "zero" \/ y.cls = "zero" THEN NaN ELSE Infinity(x.neg # y.neg))
    ELSE IF x.cls = "zero" \/ y.cls = "zero" THEN Zero
    ELSE RoundNearestEven(x.neg # y.neg, BMul(x.m, y.m), x.e + y.e, FALSE)

\* the significand of y is a number below 2 * LimbBase times a power of two
ShortSignificand(y) == ~BLowNonZero(y.m, MantissaBits - LimbBits - 1)

\* quotient of the significands, scaled to keep three extra bits, and whether
\* a remainder is left
SignificandQuotient(x, y) ==
    LET exactness(res) == [q |-> res.q, inexact |-> res.r # 0]
        short(n, d) == exactness(BDivSmall(n, LimbAt(d, 1) + LimbBase * LimbAt(d, 2)))
        checked(n, q) == [q |-> q, inexact |-> BMul(q, y.m) # n]
        long(n) == checked(n, BDiv(n, y.m))
    IN  IF ShortSignificand(y)
        THEN short(BShr(BShl(x.m, MantissaBits + 3), MantissaBits - LimbBits - 1),
                   BShr(y.m, MantissaBits - LimbBits - 1))
        ELSE long(BShl(x.m, MantissaBits + 3))

FDiv(x, y) ==
    LET rounded(sq) == RoundNearestEven(x.neg # y.neg, sq.q, x.e - y.e - (MantissaBits + 3),
                                        sq.inexact)
    IN  IF x.cls = "nan" \/ y.cls = "nan" THEN NaN
        ELSE IF x.cls = "inf" THEN (IF y.cls = "inf" THEN NaN ELSE Infinity(x.neg # y.neg))
        ELSE IF y.cls = "inf" THEN Zero
        ELSE IF y.cls = "zero" THEN (IF x.cls = "zero" THEN NaN ELSE Infinity(x.neg # y.neg))
        ELSE IF x.cls = "zero" THEN Zero
        ELSE rounded(SignificandQuotient(x, y))

\* Math.sqrt of a non-negative integer-valued double
FSqrtInt(n) ==
    LET rounded(N, s) == RoundNearestEven(FALSE, s, -(MantissaBits + 2), BMul(s, s) # N)
        root(N) == rounded(N, BSqrt(N))
    IN  IF n = 0 THEN Zero ELSE root(BShl(BFromNat(n), 2 * (MantissaBits + 2)))

\* sum of two doubles that are not negative
FAdd(x, y) ==
    IF x.cls = "nan" \/ y.cls = "nan" THEN NaN
    ELSE IF x.cls = "inf" \/ y.cls = "inf" THEN Infinity(FALSE)
    ELSE IF x.cls = "zero" THEN y
    ELSE IF y.cls = "zero" THEN x
    ELSE LET e == IF x.e < y.e THEN x.e ELSE y.e
         IN  RoundNearestEven(FALSE, BAdd(BShl(x.m, x.e - e), BShl(y.m, y.e - e)), e, FALSE)

\* -1, 0, 1 for x < y, x = y, x > y on doubles that are not NaN
MagCmp(x, y) == IF x.e < y.e THEN -1 ELSE IF x.e > y.e THEN 1 ELSE BCmp(x.m, y.m)
Sgn(x) == IF x.cls = "zero" THEN 0 ELSE IF x.neg THEN -1 ELSE 1
FCmp(x, y) ==
    IF Sgn(x) # Sgn(y) THEN (IF Sgn(x) < Sgn(y) THEN -1 ELSE 1)
    ELSE IF Sgn(x) = 0 THEN 0
    ELSE IF x.cls = "inf" \/ y.cls = "inf"
         THEN (IF x.cls = y.cls THEN 0 ELSE IF x.cls = "inf" THEN Sgn(x) ELSE -Sgn(x))
    ELSE Sgn(x) * MagCmp(x, y)
FGreater(x, y) == x.cls # "nan" /\ y.cls # "nan" /\ FCmp(x, y) > 0

(* ---------- bounds of the checked instance ---------- *)
\* longest freely chosen tail of the corpus
MaxFree == 3
\* longest corpus handed to the Retriever on its own
MaxCorpus == 7

(* ---------- constants of the code ---------- *)
\* documentsRef.limit(100)
SnapshotLimit == 100
\* .slice(0, 5)
TopK == 5
\* chunk.similarity > 0.7
Threshold == FDiv(FromInt(7), FromInt(10))
\* chunk.similarity || 0.8
DefaultConfidence == FDiv(FromInt(8), FromInt(10))
One == FromInt(1)

NO_MATCH_ANSWER == "I don't have enough information in my knowledge base to answer that question accurately. Could you please rephrase or ask about a different legal topic?"
FALLBACK_ANSWER == "I apologize, but I couldn't generate a response. Please try again."

(* ---------- cosine similarity ---------- *)
ZeroVector == <<0, 0, 0, 0>>
\* embeddings that occur: three 4-vectors with norms 5, 2 and sqrt(3), the
\* zero vector, and a vector of another length
Vectors == {<<3, 4, 0, 0>>, <<1, 1, 1, 1>>, <<1, 1, 1, 0>>, ZeroVector, <<1, 1>>}

RECURSIVE SumProducts(_, _, _)
\* the loop "for (i = 0; i < a.length; i++) acc += a[i] * b[i]" on
\* integer-valued doubles, where every step is exact
SumProducts(a, b, i) == IF i > Len(a) THEN 0 ELSE a[i] * b[i] + SumProducts(a, b, i + 1)

\* the dot product divided by the squared norm of the first vector only
cosineSimilarityByFirstNorm(a, b) ==
    IF Len(a) # Len(b) THEN Zero
    ELSE FDiv(FromInt(SumProducts(a, b, 1)),
              FMul(FSqrtInt(SumProducts(a, a, 1)), FSqrtInt(SumProducts(a, a, 1))))

cosineSimilarity(a, b) ==
    IF Len(a) # Len(b) THEN Zero
    ELSE FDiv(FromInt(SumProducts(a, b, 1)),
              FMul(FSqrtInt(SumProducts(a, a, 1)), FSqrtInt(SumProducts(b, b, 1))))

\* the similarities of all pairs, computed once
SimilarityTable == {<<a, b, cosineSimilarity(a, b)>> : a \in Vectors, b \in Vectors}
Similarity(a, b) == (CHOOSE t \in SimilarityTable : t[1] = a /\ t[2] = b)[3]

(* ---------- Array.prototype.sort of Node 18 (V8) ---------- *)
\* (a, b) => b.similarity - a.similarity : NaN when either side is NaN
comparefn(a, b) ==
    IF a.similarity.cls = "nan" \/ b.similarity.cls = "nan"
    THEN [nan |-> TRUE, sign |-> 0]
    ELSE [nan |-> FALSE, sign |-> FCmp(b.similarity, a.similarity)]

\* the engine reads a NaN comparator result as +0
SortCompare(x, y) == IF comparefn(x, y).nan THEN 0 ELSE comparefn(x, y).sign

Reverse(s) == [i \in 1..Len(s) |-> s[Len(s) + 1 - i]]

\* length of the run that starts at the first element: it ends before the
\* first element that breaks the direction
RunEnd(arr, isDescending) ==
    LET breaks == {idx \in 3..Len(arr) :
                      \/ isDescending /\ SortCompare(arr[idx], arr[idx - 1]) >= 0
                      \/ ~isDescending /\ SortCompare(arr[idx], arr[idx - 1]) < 0}
    IN  IF breaks = {} THEN Len(arr) ELSE Min(breaks) - 1

CountAndMakeRun(arr) ==
    LET made(isDescending, run) ==
            [arr |-> IF isDescending
                     THEN Reverse(SubSeq(arr, 1, run)) \o SubSeq(arr, run + 1, Len(arr))
                     ELSE arr,
             run |-> run]
        counted(isDescending) == made(isDescending, RunEnd(arr, isDescending))
    IN  IF Len(arr) < 2 THEN [arr |-> arr, run |-> Len(arr)]
        ELSE counted(SortCompare(arr[2], arr[1]) < 0)

RECURSIVE InsertionPoint(_, _, _, _)
\* binary search in arr[left..right-1] (0-based, as in the engine)
InsertionPoint(arr, pivot, left, right) ==
    LET probe(mid) == IF SortCompare(pivot, arr[mid + 1]) < 0
                      THEN InsertionPoint(arr, pivot, left, mid)
                      ELSE InsertionPoint(arr, pivot, mid + 1, right)
    IN  IF left >= right THEN left ELSE probe(left + ((right - left) \div 2))

RECURSIVE BinaryInsertionSort(_, _)
\* arr[1..start] is sorted; insert arr[start+1], then the rest
BinaryInsertionSort(arr, start) ==
    LET insert(pivot, pos) ==
            SubSeq(arr, 1, pos) \o <<pivot>> \o SubSeq(arr, pos + 1, start)
                \o SubSeq(arr, start + 2, Len(arr))
        place(pivot) == insert(pivot, InsertionPoint(arr, pivot, 0, start))
    IN  IF start >= Len(arr) THEN arr
        ELSE BinaryInsertionSort(place(arr[start + 1]), start + 1)

\* One run extended by binary insertion: V8's sort for arrays shorter than
\* 64 elements, and the result of every stable sort when no key is NaN.
sort(arr) ==
    LET extend(made) == BinaryInsertionSort(made.arr, made.run)
    IN  extend(CountAndMakeRun(arr))

(* ---------- AIService.searchDocuments ---------- *)
\* documentsRef.limit(100).get()
Snapshot(docs) == SubSeq(docs, 1, IF Len(docs) < SnapshotLimit THEN Len(docs) ELSE SnapshotLimit)

\* snapshot.forEach: keep the documents that have an embedding
HasEmbedding(doc) == doc.hasEmbedding
CollectChunks(docs) == SelectSeq(Snapshot(docs), HasEmbedding)

ScoreChunks(queryEmbedding, chunks) ==
    [i \in 1..Len(chunks) |->
        [id |-> chunks[i].id, content |-> chunks[i].content, title |-> chunks[i].title,
         url |-> chunks[i].url, type |-> chunks[i].type, embedding |-> chunks[i].embedding,
         similarity |-> Similarity(queryEmbedding, chunks[i].embedding)]]

AtLeastThreshold(chunk) == chunk.similarity.cls # "nan" /\ FCmp(chunk.similarity, Threshold) >= 0
AboveThreshold(chunk) == FGreater(chunk.similarity, Threshold)

SliceAll(s) == s
SliceTopK(s) == SubSeq(s, 1, IF Len(s) < TopK THEN Len(s) ELSE TopK)

searchDocuments(queryEmbedding, docs) ==
    LET select(scoredChunks) ==
            [scored |-> scoredChunks,
             result |-> SliceTopK(SelectSeq(scoredChunks, AboveThreshold))]
    IN  select(sort(ScoreChunks(queryEmbedding, CollectChunks(docs))))

(* ---------- AIService.generateResponse ---------- *)
\* chunk.similarity || 0.8 : NaN and 0 are falsy
Falsy(x) == x.cls = "nan" \/ x.cls = "zero"
SourceConfidenceDefault(chunk) == DefaultConfidence
SourceConfidence(chunk) == IF Falsy(chunk.similarity) THEN DefaultConfidence ELSE chunk.similarity

\* a text is the sequence of its characters
Ellipsis == <<".", ".", ".">>
SnippetLength == 200
SnippetWhole(content) == content \o Ellipsis
\* chunk.content.substring(0, 200) + '...'
Snippet(content) ==
    SubSeq(content, 1, IF Len(content) < SnippetLength THEN Len(content) ELSE SnippetLength)
        \o Ellipsis

\* the sources listed from the last retrieved chunk to the first
SourcesOfReversed(relevantChunks) ==
    [i \in 1..Len(relevantChunks) |->
        [title |-> relevantChunks[Len(relevantChunks) + 1 - i].title,
         url |-> relevantChunks[Len(relevantChunks) + 1 - i].url,
         snippet |-> Snippet(relevantChunks[Len(relevantChunks) + 1 - i].content),
         type |-> relevantChunks[Len(relevantChunks) + 1 - i].type,
         confidence |-> SourceConfidence(relevantChunks[Len(relevantChunks) + 1 - i])]]
SourcesOf(relevantChunks) ==
    [i \in 1..Len(relevantChunks) |->
        [title |-> relevantChunks[i].title, url |-> relevantChunks[i].url,
         snippet |-> Snippet(relevantChunks[i].content), type |-> relevantChunks[i].type,
         confidence |-> SourceConfidence(relevantChunks[i])]]

\* aiService.ts 155-177: the prompt as the sequence of its parts, each with
\* the texts that the template puts in
PromptPart(kind, label, title, text) == [kind |-> kind, label |-> label, title |-> title, text |-> text]
GROUNDING_RULES == "You are Athena, an AI legal mentor. You MUST follow these rules: ... Retrieved Legal Sources:"
CLOSING_INSTRUCTION == "Provide a helpful answer using ONLY the information from the sources above. Include source citations for all claims."
\* relevantChunks.map((chunk, index) => `[Source ${index + 1}] ${chunk.title}\n${chunk.content}\n`)
retrievedContext(relevantChunks) ==
    [i \in 1..Len(relevantChunks) |->
        PromptPart("source", i, relevantChunks[i].title, relevantChunks[i].content)]
\* ${context ? `Previous conversation context:\n${context}\n` : ''}
contextPart(context) ==
    IF context = <<>> THEN <<>> ELSE <<PromptPart("context", 0, "", context)>>
\* the conversation context put behind the question
systemPromptContextLast(question, relevantChunks, context) ==
    <<PromptPart("rules", 0, "", GROUNDING_RULES)>> \o retrievedContext(relevantChunks)
        \o <<PromptPart("question", 0, "", question)>> \o contextPart(context)
        \o <<PromptPart("closing", 0, "", CLOSING_INSTRUCTION)>>
systemPrompt(question, relevantChunks, context) ==
    <<PromptPart("rules", 0, "", GROUNDING_RULES)>> \o retrievedContext(relevantChunks)
        \o contextPart(context) \o <<PromptPart("question", 0, "", question)>>
        \o <<PromptPart("closing", 0, "", CLOSING_INSTRUCTION)>>

RECURSIVE ReduceSum(_, _, _)
\* sources.reduce((sum, source) => sum + source.confidence, 0)
ReduceSum(sources, i, sum) ==
    IF i > Len(sources) THEN sum ELSE ReduceSum(sources, i + 1, FAdd(sum, sources[i].confidence))

avgConfidenceOverTopK(sources) == FDiv(ReduceSum(sources, 1, Zero), FromInt(TopK))
avgConfidence(sources) == FDiv(ReduceSum(sources, 1, Zero), FromInt(Len(sources)))

\* candidates?.[0]?.content?.parts?.[0]?.text || fallback
AnswerText(modelText) == IF modelText = "" THEN FALLBACK_ANSWER ELSE modelText

generateResponse(relevantChunks, modelText) ==
    [answer |-> AnswerText(modelText),
     sources |-> SourcesOf(relevantChunks),
     confidence |-> avgConfidence(SourcesOf(relevantChunks))]

NoMatchResponseGuessed == [answer |-> NO_MATCH_ANSWER, sources |-> <<>>, confidence |-> DefaultConfidence]
NoMatchResponse == [answer |-> NO_MATCH_ANSWER, sources |-> <<>>, confidence |-> Zero]
NoResponse == [answer |-> "", sources |-> <<>>, confidence |-> Zero]

(* ---------- the corpus (collection document_chunks, in read order) ---------- *)
\* documentProcessor.ts 196-205: every chunk is written with type 'document'
IngestedType == "document"
\* documentProcessor.ts 196-205: the chunk chunkIndex of document documentId
\* as createDocumentChunks writes it, read as number id of the collection
Chunk(id, documentId, chunkIndex, emb, content) ==
    [id |-> id, documentId |-> documentId, chunkIndex |-> chunkIndex, content |-> content,
     title |-> <<"Document Chunk", chunkIndex + 1>>, url |-> <<"fileUrl", documentId>>,
     type |-> IngestedType, hasEmbedding |-> emb # <<>>, embedding |-> emb]
\* the k-th character of a text
CharAt(k) == <<"a", "b", "c">>[(k % 3) + 1]
\* the words of chunk i: a short text
ContentOf(i) == <<"w", CharAt(i)>>
Doc(i, emb) == Chunk(i, 1, i - 1, emb, ContentOf(i))
MkCorpus(embs) == [i \in 1..Len(embs) |-> Doc(i, embs[i])]

\* <<>> stands for a document without an embedding field
DocEmbeddings == Vectors \cup {<<>>}
\* a bulk of documents in front of the freely chosen ones: none, TopK close
\* matches, or a full first page of documents of another dimensionality
Bulks == {<<>>, [i \in 1..TopK |-> <<1, 1, 1, 0>>], [i \in 1..SnapshotLimit |-> <<1, 1>>]}
FreeParts == UNION {[1..n -> DocEmbeddings] : n \in 0..MaxFree}
Corpora == {MkCorpus(bulk \o free) : bulk \in Bulks, free \in FreeParts}

\* what the embedding model answers for a question
QueryEmbeddings == {<<3, 4, 0, 0>>, <<1, 1, 1, 0>>, ZeroVector}

\* data.question as it arrives: absent, not a string, empty, or a question
Questions == {[type |-> "undefined", text |-> ""], [type |-> "number", text |-> "42"],
              [type |-> "string", text |-> ""],
              [type |-> "string", text |-> "How do I qualify as a solicitor?"]}
\* the text part of the first candidate: "" stands for an absent or empty
\* part (both falsy), then a text of blanks only, then an answer
WhitespaceText == "   "
ModelTexts == {"", WhitespaceText, "Generated answer citing [Source 1]"}

(* ---------- the getAIResponse callable ---------- *)
\* client is the browser's AIService.askQuestion around the callable; requests
\* holds the invocations of the callable that run side by side; prompt is the
\* text given to the model; documents is the collection of uploaded documents
\* with the runs that process them
VARIABLES corpus, auth, question, pc, questionEmbedding, scoredChunks, relevantChunks,
          response, outcome, calls, ai_interactions, client, requests, prompt, documents

vars == <<corpus, auth, question, pc, questionEmbedding, scoredChunks, relevantChunks,
          response, outcome, calls, ai_interactions, client, requests, prompt, documents>>

NoQuestion == [type |-> "undefined", text |-> ""]
AQuestion == [type |-> "string", text |-> "How do I qualify as a solicitor?"]

\* what askQuestion has given back: nothing yet, an AIResponse or an Error
NoResult == [kind |-> "none", answer |-> "", sources |-> <<>>, confidence |-> Zero,
             message |-> ""]
\* no browser client: the callable is invoked directly
NoClient == [variant |-> "none", stage |-> "absent", question |-> NoQuestion,
             history |-> <<>>, context |-> <<>>, result |-> NoResult]
\* no invocations side by side
NoRequests == <<>>
\* no model call made yet
NoPrompt == <<>>
\* no uploaded document: the one document that is followed has not been
\* created, and neither the onDocumentCreated trigger nor the processDocument
\* callable runs for it
NoDocuments == [state |-> "none", processed |-> FALSE, trigger |-> "idle",
                callable |-> "idle", reruns |-> 0]

NoCalls == [embed |-> 0, corpus |-> 0, generate |-> 0, audit |-> 0]

Init ==
    /\ corpus \in Corpora
    /\ auth = FALSE
    /\ question = NoQuestion
    /\ pc = "idle"
    /\ questionEmbedding = <<>>
    /\ scoredChunks = <<>>
    /\ relevantChunks = <<>>
    /\ response = NoResponse
    /\ outcome = "pending"
    /\ calls = NoCalls
    /\ ai_interactions = <<>>
    /\ client = NoClient
    /\ requests = NoRequests
    /\ prompt = NoPrompt
    /\ documents = NoDocuments

\* !question || typeof question !== 'string'
AcceptsAnyQuestion(q) == FALSE
InvalidQuestion(q) == q.type # "string" \/ q.text = ""

\* index.ts 19-33: the checks before the pipeline is entered
Call(a, q) ==
    /\ pc = "idle"
    /\ auth' = a
    /\ question' = q
    /\ IF ~a THEN pc' = "done" /\ outcome' = "unauthenticated"
       ELSE IF InvalidQuestion(q) THEN pc' = "done" /\ outcome' = "invalid-argument"
       ELSE pc' = "embedding" /\ outcome' = "pending"
    /\ UNCHANGED <<client, requests, prompt, documents, corpus, questionEmbedding, scoredChunks, relevantChunks, response,
                   calls, ai_interactions>>

\* a failure that is answered with the insufficient-information Answer
FailAnswered(step) ==
    /\ calls' = [calls EXCEPT ![step] = @ + 1]
    /\ pc' = "done"
    /\ outcome' = "ok"
    /\ response' = NoMatchResponse
    /\ UNCHANGED <<client, requests, prompt, documents, corpus, auth, question, questionEmbedding, scoredChunks,
                   relevantChunks, ai_interactions>>

\* a failure that leaves a record of the failed interaction behind
FailLogged(step) ==
    /\ calls' = [calls EXCEPT ![step] = @ + 1]
    /\ pc' = "done"
    /\ outcome' = "internal"
    /\ ai_interactions' = Append(ai_interactions,
                                 [question |-> question.text, response |-> "",
                                  sources |-> <<>>, confidence |-> Zero])
    /\ UNCHANGED <<client, requests, prompt, documents, corpus, auth, question, questionEmbedding, scoredChunks,
                   relevantChunks, response>>

\* every throw inside the service is rethrown by getAIResponse and turned
\* into HttpsError('internal') by the callable; nothing is logged
Fail(step) ==
    /\ calls' = [calls EXCEPT ![step] = @ + 1]
    /\ pc' = "done"
    /\ outcome' = "internal"
    /\ UNCHANGED <<client, requests, prompt, documents, corpus, auth, question, questionEmbedding, scoredChunks, relevantChunks,
                   response, ai_interactions>>

\* aiService.ts 46: generateEmbedding returns
EmbedOk(v) ==
    /\ pc = "embedding"
    /\ calls' = [calls EXCEPT !.embed = @ + 1]
    /\ questionEmbedding' = v
    /\ pc' = "searching"
    /\ UNCHANGED <<client, requests, prompt, documents, corpus, auth, question, scoredChunks, relevantChunks, response, outcome,
                   ai_interactions>>

\* a failed embedding call that is tried once more
EmbedFailRetried ==
    /\ pc = "embedding"
    /\ calls.embed < 2
    /\ calls' = [calls EXCEPT !.embed = @ + 1]
    /\ UNCHANGED <<client, requests, prompt, documents, corpus, auth, question, pc, questionEmbedding, scoredChunks,
                   relevantChunks, response, outcome, ai_interactions>>

EmbedFail == pc = "embedding" /\ Fail("embed")

\* aiService.ts 49-57: searchDocuments returns, then the no-match branch
SearchOk ==
    /\ pc = "searching"
    /\ calls' = [calls EXCEPT !.corpus = @ + 1]
    /\ LET returned(found) ==
               /\ scoredChunks' = found.scored
               /\ relevantChunks' = found.result
               /\ IF Len(found.result) = 0
                  THEN response' = NoMatchResponse /\ pc' = "logging" /\ prompt' = prompt
                  ELSE /\ response' = response
                       /\ pc' = "generating"
                       /\ prompt' = systemPrompt(question.text, found.result, client.context)
       IN  returned(searchDocuments(questionEmbedding, corpus))
    /\ UNCHANGED <<client, requests, documents, corpus, auth, question, questionEmbedding, outcome, ai_interactions>>

SearchFail == pc = "searching" /\ Fail("corpus")

\* aiService.ts 60-62, 139-202: the model answers and the response is assembled
GenerateOk(modelText) ==
    /\ pc = "generating"
    /\ calls' = [calls EXCEPT !.generate = @ + 1]
    /\ response' = generateResponse(relevantChunks, modelText)
    /\ pc' = "logging"
    /\ UNCHANGED <<client, requests, prompt, documents, corpus, auth, question, questionEmbedding, scoredChunks, relevantChunks,
                   outcome, ai_interactions>>

\* a failed generation answered with an apology that drops the sources
GenerateFailApology ==
    /\ pc = "generating"
    /\ calls' = [calls EXCEPT !.generate = @ + 1]
    /\ response' = [answer |-> FALLBACK_ANSWER, sources |-> <<>>, confidence |-> Zero]
    /\ pc' = "logging"
    /\ UNCHANGED <<client, requests, prompt, documents, corpus, auth, question, questionEmbedding, scoredChunks,
                   relevantChunks, outcome, ai_interactions>>

\* aiService.ts 203-206, 63-66, index.ts 46-49: the model call throws
GenerateFail == pc = "generating" /\ Fail("generate")

\* index.ts 36-45: the interaction is recorded, then the response returned
\* the response returned without the interaction being recorded
LogOkUnrecorded ==
    /\ pc = "logging"
    /\ calls' = [calls EXCEPT !.audit = @ + 1]
    /\ pc' = "done"
    /\ outcome' = "ok"
    /\ UNCHANGED <<client, requests, prompt, documents, corpus, auth, question, questionEmbedding, scoredChunks,
                   relevantChunks, response, ai_interactions>>

LogOk ==
    /\ pc = "logging"
    /\ calls' = [calls EXCEPT !.audit = @ + 1]
    /\ ai_interactions' = Append(ai_interactions,
                                 [question |-> question.text, response |-> response.answer,
                                  sources |-> response.sources, confidence |-> response.confidence])
    /\ pc' = "done"
    /\ outcome' = "ok"
    /\ UNCHANGED <<client, requests, prompt, documents, corpus, auth, question, questionEmbedding, scoredChunks, relevantChunks,
                   response>>

LogFail == pc = "logging" /\ Fail("audit")

Next ==
    \/ \E a \in BOOLEAN, q \in Questions : Call(a, q)
    \/ \E v \in QueryEmbeddings : EmbedOk(v)
    \/ EmbedFail
    \/ SearchOk
    \/ SearchFail
    \/ \E t \in ModelTexts : GenerateOk(t)
    \/ GenerateFail
    \/ LogOk
    \/ LogFail

Spec == Init /\ [][Next]_vars

(* ---------- the Retriever on its own ---------- *)
RetrieverEmbeddings == {<<3, 4, 0, 0>>, <<1, 1, 1, 1>>, <<1, 1, 1, 0>>, ZeroVector}
RetrieverCorpora == {MkCorpus(embs) : embs \in UNION {[1..n -> RetrieverEmbeddings] : n \in 0..MaxCorpus}}

InitRetriever ==
    /\ corpus \in RetrieverCorpora
    /\ auth = TRUE
    /\ question = AQuestion
    /\ pc = "searching"
    /\ questionEmbedding \in QueryEmbeddings \ {ZeroVector}
    /\ scoredChunks = <<>>
    /\ relevantChunks = <<>>
    /\ response = NoResponse
    /\ outcome = "pending"
    /\ calls = NoCalls
    /\ ai_interactions = <<>>
    /\ client = NoClient
    /\ requests = NoRequests
    /\ prompt = NoPrompt
    /\ documents = NoDocuments

Retrieve ==
    /\ pc = "searching"
    /\ calls' = [calls EXCEPT !.corpus = @ + 1]
    /\ LET returned(found) == scoredChunks' = found.scored /\ relevantChunks' = found.result
       IN  returned(searchDocuments(questionEmbedding, corpus))
    /\ pc' = "retrieved"
    /\ UNCHANGED <<client, requests, prompt, documents, corpus, auth, question, questionEmbedding, response, outcome, ai_interactions>>

NextRetriever == Retrieve

SpecRetriever == InitRetriever /\ [][NextRetriever]_vars

(* ---------- generateResponse on its own ---------- *)
\* one retrieved chunk with a content of 0 to MaxContent characters
MaxContent == 260
Contents == {[k \in 1..n |-> CharAt(k)] : n \in 0..MaxContent}

InitGenerator ==
    /\ corpus \in {<<Chunk(1, 1, 0, <<3, 4, 0, 0>>, content)>> : content \in Contents}
    /\ auth = TRUE
    /\ question = AQuestion
    /\ pc = "generating"
    /\ questionEmbedding = <<3, 4, 0, 0>>
    /\ scoredChunks = searchDocuments(questionEmbedding, corpus).scored
    /\ relevantChunks = searchDocuments(questionEmbedding, corpus).result
    /\ response = NoResponse
    /\ outcome = "pending"
    /\ calls = [embed |-> 1, corpus |-> 1, generate |-> 0, audit |-> 0]
    /\ ai_interactions = <<>>
    /\ client = NoClient
    /\ requests = NoRequests
    /\ prompt = systemPrompt(question.text, relevantChunks, client.context)
    /\ documents = NoDocuments

NextGenerator ==
    \/ \E t \in ModelTexts : GenerateOk(t)
    \/ GenerateFail

SpecGenerator == InitGenerator /\ [][NextGenerator]_vars

(* ---------- invocations of the callable side by side ---------- *)
Requesters == {1, 2}

\* what the caller of the callable receives when it throws
HttpsError(code, message) == [code |-> code, message |-> message]
NoError == HttpsError("none", "")
Unauthenticated == HttpsError("unauthenticated", "User must be authenticated")
InvalidArgument == HttpsError("invalid-argument", "Question is required")
Internal == HttpsError("internal", "Failed to get AI response")
\* what AIService.getAIResponse throws to the callable, whatever was caught
SERVICE_ERROR == "Failed to generate AI response"

\* the locals of one invocation; ended names how it ended
IdleRequest == [pc |-> "idle", question |-> NoQuestion, questionEmbedding |-> <<>>,
                relevantChunks |-> <<>>, modelText |-> "", response |-> NoResponse,
                thrown |-> "", error |-> NoError, ended |-> ""]

ConcurrentCorpora ==
    {MkCorpus(embs) : embs \in {<<>>, <<<<1, 1>>>>,
                                <<<<3, 4, 0, 0>>, <<1, 1, 1, 1>>, <<1, 1, 1, 0>>>>,
                                <<ZeroVector, ZeroVector, <<1, 1, 1, 0>>, <<3, 4, 0, 0>>,
                                  ZeroVector, <<3, 4, 0, 0>>, <<3, 4, 0, 0>>>>}}

InitConcurrent ==
    /\ corpus \in ConcurrentCorpora
    /\ auth = FALSE
    /\ question = NoQuestion
    /\ pc = "idle"
    /\ questionEmbedding = <<>>
    /\ scoredChunks = <<>>
    /\ relevantChunks = <<>>
    /\ response = NoResponse
    /\ outcome = "pending"
    /\ calls = NoCalls
    /\ ai_interactions = <<>>
    /\ client = NoClient
    /\ requests = [r \in Requesters |-> IdleRequest]
    /\ prompt = NoPrompt
    /\ documents = NoDocuments

\* the variables of the single invocation, not used side by side
single == <<auth, question, pc, questionEmbedding, scoredChunks, relevantChunks, response,
            outcome, calls, client, prompt, documents>>

\* an embedding kept where the next invocation overwrites it
SharedEmbedding(r) ==
    IF \E o \in Requesters \ {r} : requests[o].questionEmbedding # <<>>
    THEN requests[CHOOSE o \in Requesters \ {r} : requests[o].questionEmbedding # <<>>].questionEmbedding
    ELSE requests[r].questionEmbedding
\* aiService.ts 46, 49: const questionEmbedding, local to the invocation
OwnEmbedding(r) == requests[r].questionEmbedding

\* a read that goes on where the read before it stopped
CorpusReadFromCursor(r) ==
    IF corpus # <<>> /\ \E o \in Requesters \ {r} : requests[o].pc \in {"generating", "logging", "done"}
    THEN Tail(corpus)
    ELSE corpus
\* aiService.ts 101-103: every invocation reads the collection from its start
CorpusRead(r) == corpus

CallC(r, a, q) ==
    /\ requests[r].pc = "idle"
    /\ requests' = [requests EXCEPT ![r] =
          IF ~a THEN [@ EXCEPT !.pc = "done", !.question = q, !.error = Unauthenticated,
                               !.ended = "unauthenticated"]
          ELSE IF InvalidQuestion(q)
               THEN [@ EXCEPT !.pc = "done", !.question = q, !.error = InvalidArgument,
                              !.ended = "invalid-argument"]
               ELSE [@ EXCEPT !.pc = "embedding", !.question = q]]
    /\ UNCHANGED <<corpus, ai_interactions, single>>

EmbedC(r, v) ==
    /\ requests[r].pc = "embedding"
    /\ requests' = [requests EXCEPT ![r] = [@ EXCEPT !.pc = "searching", !.questionEmbedding = v]]
    /\ UNCHANGED <<corpus, ai_interactions, single>>

SearchC(r) ==
    /\ requests[r].pc = "searching"
    /\ LET returned(result) ==
               requests' = [requests EXCEPT ![r] =
                   IF Len(result) = 0
                   THEN [@ EXCEPT !.pc = "logging", !.relevantChunks = result,
                                  !.response = NoMatchResponse]
                   ELSE [@ EXCEPT !.pc = "generating", !.relevantChunks = result]]
       IN  returned(searchDocuments(OwnEmbedding(r), CorpusRead(r)).result)
    /\ UNCHANGED <<corpus, ai_interactions, single>>

GenerateC(r, modelText) ==
    /\ requests[r].pc = "generating"
    /\ requests' = [requests EXCEPT ![r] =
          [@ EXCEPT !.pc = "logging", !.modelText = modelText,
                    !.response = generateResponse(requests[r].relevantChunks, modelText)]]
    /\ UNCHANGED <<corpus, ai_interactions, single>>

LogC(r) ==
    /\ requests[r].pc = "logging"
    /\ ai_interactions' = Append(ai_interactions,
                                 [question |-> requests[r].question.text,
                                  response |-> requests[r].response.answer,
                                  sources |-> requests[r].response.sources,
                                  confidence |-> requests[r].response.confidence])
    /\ requests' = [requests EXCEPT ![r] = [@ EXCEPT !.pc = "done", !.ended = "ok"]]
    /\ UNCHANGED <<corpus, single>>

\* the call a suspended invocation waits for
StageOf(p) == CASE p = "embedding" -> "embed"
                [] p = "searching" -> "corpus"
                [] p = "generating" -> "generate"
                [] p = "logging" -> "audit"

\* aiService.ts 63-66, index.ts 46-49: whatever is thrown leaves the service
\* as SERVICE_ERROR (the audit write throws in the callable itself) and the
\* callable as Internal
FailC(r) ==
    /\ requests[r].pc \in {"embedding", "searching", "generating", "logging"}
    /\ requests' = [requests EXCEPT ![r] =
          [@ EXCEPT !.pc = "done", !.ended = StageOf(requests[r].pc),
                    !.thrown = IF requests[r].pc = "logging" THEN "" ELSE SERVICE_ERROR,
                    !.error = Internal]]
    /\ UNCHANGED <<corpus, ai_interactions, single>>

NextConcurrent ==
    \E r \in Requesters :
        \/ \E a \in BOOLEAN, q \in Questions : CallC(r, a, q)
        \/ \E v \in QueryEmbeddings : EmbedC(r, v)
        \/ SearchC(r)
        \/ \E t \in ModelTexts : GenerateC(r, t)
        \/ LogC(r)
        \/ FailC(r)

SpecConcurrent == InitConcurrent /\ [][NextConcurrent]_vars

(* ---------- the browser's AIService.askQuestion around the callable ---------- *)
\* App.tsx 116-124 calls the callable only; App.tsx 315-336 analyses the
\* question locally first and calls the callable when it did not understand
ClientVariants == {"cloud", "local-analysis"}

TRY_AGAIN == "Failed to get AI response. Please try again."
NOT_UNDERSTOOD == "I don't understand your question or I don't have enough information in my legal knowledge base to provide an accurate answer. ..."
LOCAL_ANSWER == "To qualify as a solicitor in England and Wales, you need to complete the Solicitors Qualifying Examination (SQE). ..."

OtherQuestion == [type |-> "string", text |-> "Limitation period for nuisance?"]
ClientQuestions == {[type |-> "string", text |-> ""], AQuestion, OtherQuestion}

\* App.tsx 341-382 analyzeQuestion: of the questions above only AQuestion
\* holds a keyword ('solicitor', 'qualify' of LEGAL_KNOWLEDGE, line 280)
UnderstoodLocally(q) == q = AQuestion
\* App.tsx 282-285, 362-367: the sources of that topic, and confidence 0.9
LocalSources ==
    <<[title |-> "SRA Handbook - SQE Requirements", type |-> "regulation",
       confidence |-> FDiv(FromInt(96), FromInt(100))],
      [title |-> "Solicitors Qualifying Examination Guide", type |-> "guide",
       confidence |-> FDiv(FromInt(92), FromInt(100))]>>
LocalConfidence == FDiv(FromInt(9), FromInt(10))

AnswerResult(answer, sources, confidence) ==
    [kind |-> "answer", answer |-> answer, sources |-> sources, confidence |-> confidence,
     message |-> ""]
ErrorResult(message) ==
    [kind |-> "error", answer |-> "", sources |-> <<>>, confidence |-> Zero,
     message |-> message]
\* App.tsx 488-495
getNotUnderstoodResponse == AnswerResult(NOT_UNDERSTOOD, <<>>, Zero)

ClientCorpora == ConcurrentCorpora

InitClient ==
    /\ corpus \in ClientCorpora
    /\ auth = FALSE
    /\ question = NoQuestion
    /\ pc = "idle"
    /\ questionEmbedding = <<>>
    /\ scoredChunks = <<>>
    /\ relevantChunks = <<>>
    /\ response = NoResponse
    /\ outcome = "pending"
    /\ calls = NoCalls
    /\ ai_interactions = <<>>
    /\ client = NoClient
    /\ requests = NoRequests
    /\ prompt = NoPrompt
    /\ documents = NoDocuments

pipeline == <<corpus, auth, question, pc, questionEmbedding, scoredChunks, relevantChunks,
              response, outcome, calls, ai_interactions, requests, prompt, documents>>

\* a conversation of n messages, user and athena in turn
MaxHistory == 7
Message(k) == [speaker |-> IF k % 2 = 1 THEN "user" ELSE "athena", message |-> <<"message", k>>]
Histories == {[k \in 1..n |-> Message(k)] : n \in 0..MaxHistory}

\* .slice(-5) of App.tsx 200, .slice(-3) of App.tsx 514
WindowOf(variant) == IF variant = "cloud" THEN 5 ELSE 3
\* the whole conversation as context
contextOfAll(variant, conversationHistory) ==
    [i \in 1..Len(conversationHistory) |->
        <<conversationHistory[i].speaker, ": ", conversationHistory[i].message>>]
\* conversationHistory.slice(-n).map(msg => `${msg.speaker}: ${msg.message}`).join('\n'),
\* as the sequence of its lines
contextOf(variant, conversationHistory) ==
    LET lines(n) ==
            [i \in 1..n |->
                <<conversationHistory[Len(conversationHistory) - n + i].speaker, ": ",
                  conversationHistory[Len(conversationHistory) - n + i].message>>]
    IN  lines(IF Len(conversationHistory) < WindowOf(variant)
              THEN Len(conversationHistory) ELSE WindowOf(variant))

\* App.tsx 187-207, 500-520: processMessage takes the context from the
\* conversation and enters askQuestion with it
processMessage(variant, message, conversationHistory) ==
    /\ client.stage = "absent"
    /\ pc = "idle"
    /\ client' = [client EXCEPT !.variant = variant, !.stage = "asking", !.question = message,
                                !.history = conversationHistory,
                                !.context = contextOf(variant, conversationHistory)]
    /\ UNCHANGED pipeline

\* askQuestion is entered, from processMessage or without a conversation; the
\* local-analysis variant returns at once when it understood the question
askQuestion(variant, q) ==
    /\ \/ client.stage = "absent"
       \/ client.stage = "asking" /\ client.variant = variant /\ client.question = q
    /\ pc = "idle"
    /\ client' = IF variant = "local-analysis" /\ UnderstoodLocally(q)
                 THEN [client EXCEPT !.variant = variant, !.stage = "returned", !.question = q,
                          !.result = AnswerResult(LOCAL_ANSWER, LocalSources, LocalConfidence)]
                 ELSE [client EXCEPT !.variant = variant, !.stage = "calling", !.question = q]
    /\ UNCHANGED pipeline

\* await getAIResponse({ question, context }): the callable runs
ClientCall(a) == client.stage = "calling" /\ Call(a, client.question)

\* the callable has returned or thrown: result.data, or the catch block
askQuestionReturns ==
    /\ client.stage = "calling"
    /\ pc = "done"
    /\ client' = [client EXCEPT
          !.stage = "returned",
          !.result = IF outcome = "ok"
                     THEN AnswerResult(response.answer, response.sources, response.confidence)
                     ELSE IF client.variant = "cloud" THEN ErrorResult(TRY_AGAIN)
                     ELSE getNotUnderstoodResponse]
    /\ UNCHANGED pipeline

NextClient ==
    \/ \E variant \in ClientVariants, q \in ClientQuestions, h \in Histories :
          processMessage(variant, q, h)
    \/ \E variant \in ClientVariants, q \in ClientQuestions : askQuestion(variant, q)
    \/ \E a \in BOOLEAN : ClientCall(a)
    \/ \E v \in QueryEmbeddings : EmbedOk(v)
    \/ EmbedFail
    \/ SearchOk
    \/ SearchFail
    \/ \E t \in ModelTexts : GenerateOk(t)
    \/ GenerateFail
    \/ LogOk
    \/ LogFail
    \/ askQuestionReturns

SpecClient == InitClient /\ [][NextClient]_vars

(* ---------- upload, processing and deletion of a document ---------- *)
DocumentId == 1
\* the chunks splitTextIntoChunks makes of the document's text
ChunksPerDocument == 2
\* processDocument called again for the same document
MaxReruns == 1
\* onDocumentCreated and the processDocument callable
Runs == {"trigger", "callable"}
\* what DocumentProcessor.generateEmbedding may give a chunk
IngestEmbeddings == {<<3, 4, 0, 0>>, <<1, 1, 1, 1>>}

InitIngestion ==
    /\ corpus = <<>>
    /\ auth = FALSE
    /\ question = NoQuestion
    /\ pc = "idle"
    /\ questionEmbedding = <<>>
    /\ scoredChunks = <<>>
    /\ relevantChunks = <<>>
    /\ response = NoResponse
    /\ outcome = "pending"
    /\ calls = NoCalls
    /\ ai_interactions = <<>>
    /\ client = NoClient
    /\ requests = NoRequests
    /\ prompt = NoPrompt
    /\ documents = NoDocuments

query == <<auth, question, pc, questionEmbedding, scoredChunks, relevantChunks, response,
           outcome, calls, ai_interactions, client, requests, prompt>>

\* App.tsx 613-655: the document record is added, which fires the trigger,
\* and processDocumentAsync calls the callable
uploadDocument ==
    /\ documents.state = "none"
    /\ documents' = [documents EXCEPT !.state = "created", !.trigger = "pending",
                                     !.callable = "pending"]
    /\ UNCHANGED <<corpus, query>>

\* documentProcessor.ts 27-38: the file is downloaded and its text extracted
Download(run) ==
    /\ documents[run] = "pending"
    /\ documents.state = "created"
    /\ documents' = [documents EXCEPT ![run] = "downloaded"]
    /\ UNCHANGED <<corpus, query>>

\* documentProcessor.ts 48-51: the download or the extraction throws
DownloadFail(run) ==
    /\ documents[run] = "pending"
    /\ documents' = [documents EXCEPT ![run] = "failed"]
    /\ UNCHANGED <<corpus, query>>

\* documentProcessor.ts 181-208: one batch of new chunk documents; the new
\* documents are read after the ones there
createDocumentChunks(run, emb) ==
    /\ documents[run] = "downloaded"
    /\ corpus' = corpus \o [i \in 1..ChunksPerDocument |->
                              Chunk(Len(corpus) + i, DocumentId, i - 1, emb, ContentOf(i))]
    /\ documents' = [documents EXCEPT ![run] = "chunked"]
    /\ UNCHANGED query

\* documentProcessor.ts 210-213: the batch fails, which is only logged
createDocumentChunksFail(run) ==
    /\ documents[run] = "downloaded"
    /\ documents' = [documents EXCEPT ![run] = "chunked"]
    /\ UNCHANGED <<corpus, query>>

\* index.ts 139-146, App.tsx 665-671: the document record is updated
MarkProcessed(run) ==
    /\ documents[run] = "chunked"
    /\ documents' = [documents EXCEPT ![run] = "done",
                                     !.processed = (documents.state = "created")]
    /\ UNCHANGED <<corpus, query>>

\* index.ts 104-122: the callable is called once more for the document
Reprocess ==
    /\ documents.callable \in {"done", "failed"}
    /\ documents.reruns < MaxReruns
    /\ documents' = [documents EXCEPT !.callable = "pending", !.reruns = @ + 1]
    /\ UNCHANGED <<corpus, query>>

\* App.tsx 779-799: the file and the document record are deleted
deleteDocument ==
    /\ documents.state = "created"
    /\ documents' = [documents EXCEPT !.state = "deleted"]
    /\ UNCHANGED <<corpus, query>>

NextIngestion ==
    \/ uploadDocument
    \/ \E run \in Runs : Download(run)
    \/ \E run \in Runs : DownloadFail(run)
    \/ \E run \in Runs, emb \in IngestEmbeddings : createDocumentChunks(run, emb)
    \/ \E run \in Runs : createDocumentChunksFail(run)
    \/ \E run \in Runs : MarkProcessed(run)
    \/ Reprocess
    \/ deleteDocument
    \/ Call(TRUE, AQuestion)
    \/ EmbedOk(<<3, 4, 0, 0>>)
    \/ SearchOk
    \/ \E t \in ModelTexts : GenerateOk(t)
    \/ LogOk

SpecIngestion == InitIngestion /\ [][NextIngestion]_vars

(* ---------- properties ---------- *)
\* searchDocuments has returned to AIService.getAIResponse
RetrievalReturned ==
    \/ pc \in {"retrieved", "generating", "logging"}
    \/ pc = "done" /\ (calls.generate > 0 \/ calls.audit > 0)
\* AIService.getAIResponse has returned an Answer to the callable
AnswerReturned == pc = "logging" \/ (pc = "done" /\ calls.audit > 0)
\* the callable has returned the Answer to its caller
Answered == pc = "done" /\ outcome = "ok"

\* the chunks of the whole collection that carry an embedding, with the
\* similarity of each to the question
Scored(i) == Similarity(questionEmbedding, corpus[i].embedding)
Embedded == {i \in 1..Len(corpus) : corpus[i].hasEmbedding}
AboveInCorpus == {i \in Embedded : FGreater(Scored(i), Threshold)}

\* C1: when retrieval returns no chunk, getAIResponse returns the fixed
\* insufficient-information Answer with no sources and confidence 0, and the
\* Generator has not been invoked.
C1_Refusal ==
    (RetrievalReturned /\ relevantChunks = <<>>) =>
        /\ AnswerReturned
        /\ response.answer = NO_MATCH_ANSWER
        /\ response.sources = <<>>
        /\ response.confidence = Zero
        /\ calls.generate = 0
\* a corpus with embedded chunks, none of them above the threshold, answered
C1_Witness ==
    /\ Answered
    /\ Embedded # {}
    /\ relevantChunks = <<>>
    /\ Len(ai_interactions) = 1
    /\ calls.generate = 0

\* C2: no chunk returned by the Retriever has a similarity at or below 0.7;
\* a chunk at exactly 0.7 is excluded.
C2_AboveThreshold ==
    RetrievalReturned =>
        \A i \in 1..Len(relevantChunks) :
            /\ relevantChunks[i].similarity = Scored(relevantChunks[i].id)
            /\ relevantChunks[i].similarity.cls = "num"
            /\ ~relevantChunks[i].similarity.neg
            /\ MagCmp(relevantChunks[i].similarity, Threshold) = 1
\* a chunk at exactly 0.7 was scored and left out while another was returned
C2_Witness ==
    /\ RetrievalReturned
    /\ relevantChunks # <<>>
    /\ \E i \in 1..Len(scoredChunks) :
          /\ scoredChunks[i].similarity = Threshold
          /\ \A j \in 1..Len(relevantChunks) : relevantChunks[j].id # scoredChunks[i].id

\* C3: the Retriever returns at most 5 chunks and every Answer has at most
\* 5 sources.
C3_AtMostTopK ==
    /\ Len(relevantChunks) <= 5
    /\ Len(response.sources) <= 5
    /\ \A n \in 1..Len(ai_interactions) : Len(ai_interactions[n].sources) <= 5
\* more than 5 chunks were above the threshold and 5 sources were answered
C3_Witness ==
    /\ Answered
    /\ Cardinality(AboveInCorpus) > 5
    /\ Len(response.sources) = 5

\* x >= y on similarities
FAtLeast(x, y) == x.cls # "nan" /\ y.cls # "nan" /\ FCmp(x, y) >= 0

\* C4: the chunks returned by the Retriever and the sources of the Answer
\* are in descending similarity order, also when the corpus holds chunks
\* with a zero-norm or wrong-length embedding.
C4_Descending ==
    /\ RetrievalReturned =>
          \A i, j \in 1..Len(relevantChunks) :
              i < j => FAtLeast(relevantChunks[i].similarity, relevantChunks[j].similarity)
    /\ AnswerReturned =>
          \A i, j \in 1..Len(response.sources) :
              i < j => FAtLeast(response.sources[i].confidence, response.sources[j].confidence)

\* C5: the result is the first min(5, n) entries of the list of all n chunks
\* of the corpus above 0.7, sorted by descending similarity: it has that
\* length, holds only such chunks, each once, in descending order, and a
\* chunk above the threshold that is left out is not above any returned one.
C5_TopOfWholeCorpus ==
    RetrievalReturned =>
        LET returned == {relevantChunks[i].id : i \in 1..Len(relevantChunks)}
        IN  /\ Len(relevantChunks) = IF Cardinality(AboveInCorpus) < 5
                                     THEN Cardinality(AboveInCorpus) ELSE 5
            /\ returned \subseteq AboveInCorpus
            /\ Cardinality(returned) = Len(relevantChunks)
            /\ \A i, j \in 1..Len(relevantChunks) :
                  i < j => FAtLeast(relevantChunks[i].similarity, relevantChunks[j].similarity)
            /\ \A a \in AboveInCorpus \ returned :
                  \A i \in 1..Len(relevantChunks) :
                      FAtLeast(relevantChunks[i].similarity, Scored(a))

RECURSIVE SumOfFirst(_, _)
\* confidences of the first n sources, added from the first on
SumOfFirst(sources, n) ==
    IF n = 0 THEN Zero ELSE FAdd(SumOfFirst(sources, n - 1), sources[n].confidence)
MeanConfidence(sources) ==
    IF Len(sources) = 0 THEN Zero
    ELSE FDiv(SumOfFirst(sources, Len(sources)), FromInt(Len(sources)))

\* C6: the confidence of every Answer is the arithmetic mean of the
\* confidences of its sources, and exactly 0 when it has no sources.
C6_MeanConfidence ==
    /\ AnswerReturned => response.confidence = MeanConfidence(response.sources)
    /\ \A n \in 1..Len(ai_interactions) :
          ai_interactions[n].confidence = MeanConfidence(ai_interactions[n].sources)
\* an Answer with several sources of different confidence
C6_Witness ==
    /\ Answered
    /\ Len(response.sources) >= 2
    /\ \E i, j \in 1..Len(response.sources) :
          response.sources[i].confidence # response.sources[j].confidence
    /\ response.confidence # response.sources[1].confidence

\* C7: the confidence of every Answer lies in [0, 1].
C7_UnitInterval ==
    AnswerReturned =>
        /\ FAtLeast(response.confidence, Zero)
        /\ FAtLeast(One, response.confidence)

\* C8: two chunks of identical similarity that both appear in the result
\* stand in the order in which the corpus read delivered them.
C8_StableTies ==
    RetrievalReturned =>
        \A i, j \in 1..Len(relevantChunks) :
            (i < j /\ relevantChunks[i].similarity = relevantChunks[j].similarity)
                => relevantChunks[i].id < relevantChunks[j].id

\* C9: when the query embedding or a chunk embedding is the zero vector the
\* similarity of the chunk is exactly 0, and the chunk is not returned.
C9_ZeroVectorScoresZero ==
    RetrievalReturned =>
        \A k \in 1..Len(scoredChunks) :
            (questionEmbedding = ZeroVector \/ scoredChunks[k].embedding = ZeroVector) =>
                /\ scoredChunks[k].similarity = Zero
                /\ \A i \in 1..Len(relevantChunks) : relevantChunks[i].id # scoredChunks[k].id

\* the request is over and its question was missing, empty or not a string
RejectableQuestion == pc = "done" /\ (question.type # "string" \/ question.text = "")

GeneratorFailed == pc = "done" /\ calls.generate = 1 /\ calls.audit = 0

\* C12: when the Generator fails after retrieval found sources, the whole
\* call fails and no Answer is returned or recorded; an Answer that follows
\* a Generator call always carries exactly the sources retrieval returned,
\* never an apology without them.
C12_FailurePolicy ==
    /\ GeneratorFailed =>
          /\ outcome = "internal"
          /\ response = NoResponse
          /\ ai_interactions = <<>>
    /\ (AnswerReturned /\ calls.generate > 0) =>
          /\ response.sources # <<>>
          /\ response.sources = SourcesOf(relevantChunks)
\* the Generator failed with five chunks retrieved
C12_Witness == GeneratorFailed /\ Len(relevantChunks) = 5 /\ outcome = "internal"

\* a text with nothing but blanks in it
Blank(text) == text \in {"", WhitespaceText}

C16_WritesOnlyAfterAnswer ==
    [][/\ corpus' = corpus
       /\ (outcome' # "ok" /\ calls'.audit = 0) => ai_interactions' = <<>>
       /\ ai_interactions' # ai_interactions =>
             /\ AnswerReturned
             /\ outcome' = "ok"
             /\ ai_interactions' =
                    Append(ai_interactions,
                           [question |-> question.text, response |-> response.answer,
                            sources |-> response.sources,
                            confidence |-> response.confidence])]_vars
\* the corpus read failed after the embedding was made: nothing was written
C16_Witness ==
    /\ pc = "done"
    /\ outcome = "internal"
    /\ questionEmbedding # <<>>
    /\ calls.corpus = 1
    /\ calls.generate = 0
    /\ ai_interactions = <<>>

\* the ways a query can end
Refused == Answered /\ calls.generate = 0 /\ response = NoMatchResponse
Assembled == Answered /\ calls.generate = 1 /\ response.sources # <<>>
Failed == pc = "done" /\ outcome \in {"unauthenticated", "invalid-argument", "internal"}

\* C17: embedding, corpus read and generation are each called at most
\* once, each only after the one before it returned successfully, and a
\* finished query has exactly one of the outcomes Refusal, assembled Answer
\* or failure.
C17_StagesInOrder ==
    /\ calls.embed <= 1 /\ calls.corpus <= 1 /\ calls.generate <= 1
    /\ calls.corpus > 0 => (calls.embed = 1 /\ questionEmbedding # <<>>)
    /\ calls.generate > 0 => (calls.corpus = 1 /\ relevantChunks # <<>>)
    /\ pc = "done" => Cardinality({k \in {"refused", "assembled", "failed"} :
                                     \/ k = "refused" /\ Refused
                                     \/ k = "assembled" /\ Assembled
                                     \/ k = "failed" /\ Failed}) = 1
\* an assembled Answer after one call of each stage
C17_Witness ==
    /\ Assembled
    /\ calls = [embed |-> 1, corpus |-> 1, generate |-> 1, audit |-> 1]

\* the categories a source may have
SourceTypes == {"statute", "case-law", "regulation", "guide"}

\* C18: every source of every Answer has a type in the closed set
\* {statute, case-law, regulation, guide}.
C18_ClosedCategories ==
    AnswerReturned => \A i \in 1..Len(response.sources) : response.sources[i].type \in SourceTypes

\* C20: a chunk whose embedding has another length than the query embedding
\* makes the retrieval fail; it is never scored and passed over.
C20_DimensionMismatchFatal ==
    RetrievalReturned =>
        \A i \in 1..Len(scoredChunks) :
            Len(scoredChunks[i].embedding) = Len(questionEmbedding)

\* the failure category an invocation ended in
Category(r) == CASE requests[r].ended = "invalid-argument" -> "InvalidInput"
                 [] requests[r].ended = "embed" -> "EmbeddingFailure"
                 [] requests[r].ended = "corpus" -> "RetrievalFailure"
                 [] requests[r].ended = "generate" -> "GenerationFailure"
                 [] OTHER -> "none"
\* all that leaves the service and the callable when an invocation fails
Reaches(r) == <<requests[r].thrown, requests[r].error>>

\* C11: invocations that failed in different categories (invalid input,
\* embedding, corpus read, generation) receive different errors.
C11_DistinguishableFailures ==
    \A r1, r2 \in Requesters :
        (Category(r1) # "none" /\ Category(r2) # "none" /\ Category(r1) # Category(r2))
            => Reaches(r1) # Reaches(r2)

\* AIService.getAIResponse has returned an Answer for invocation r
AnswerReturnedC(r) == requests[r].pc = "logging" \/ requests[r].ended \in {"ok", "audit"}
\* the Answer invocation r gets when it runs with nothing beside it
AnswerAlone(r) ==
    LET alone(result) == IF Len(result) = 0 THEN NoMatchResponse
                         ELSE generateResponse(result, requests[r].modelText)
    IN  alone(searchDocuments(requests[r].questionEmbedding, corpus).result)

\* C15: of invocations running side by side over one corpus, each returns
\* the Answer it returns alone for its own embedding and model output, the
\* corpus stays as it is, and each answered invocation has recorded its own
\* Answer.
C15_Independent ==
    /\ \A r \in Requesters : AnswerReturnedC(r) => requests[r].response = AnswerAlone(r)
    /\ \A r \in Requesters :
          requests[r].ended = "ok" =>
              \E n \in 1..Len(ai_interactions) :
                  /\ ai_interactions[n].response = requests[r].response.answer
                  /\ ai_interactions[n].sources = requests[r].response.sources
                  /\ ai_interactions[n].confidence = requests[r].response.confidence
    /\ Len(ai_interactions) = Cardinality({r \in Requesters : requests[r].ended = "ok"})
\* two invocations answered with different embeddings and different Answers
C15_Witness ==
    /\ \A r \in Requesters : requests[r].ended = "ok" /\ requests[r].response.sources # <<>>
    /\ requests[1].questionEmbedding # requests[2].questionEmbedding
    /\ requests[1].response.sources # requests[2].response.sources

\* searchDocuments has returned for invocation r
RetrievedC(r) ==
    requests[r].pc \in {"generating", "logging"} \/ requests[r].ended \in {"ok", "generate", "audit"}

CameBack == client.stage = "returned" /\ pc = "done"

\* C14: when the call of the callable failed, askQuestion gives the
\* try-again error and no Answer; when the callable returned the
\* insufficient-information Answer, askQuestion gives that Answer and no
\* error.
C14_BrokenVersusEmpty ==
    /\ (CameBack /\ outcome # "ok") =>
          /\ client.result.kind = "error"
          /\ client.result.message = TRY_AGAIN
    /\ (CameBack /\ outcome = "ok" /\ response = NoMatchResponse) =>
          /\ client.result.kind = "answer"
          /\ client.result.answer = NO_MATCH_ANSWER
          /\ client.result.sources = <<>>

\* C23: every source of an Answer carries as confidence the similarity that
\* retrieval computed for its chunk, which is above 0.7; the default 0.8 is
\* never taken for a retrieved chunk.
C23_ConfidenceIsSimilarity ==
    (AnswerReturned /\ response.sources # <<>>) =>
        /\ Len(response.sources) = Len(relevantChunks)
        /\ \A i \in 1..Len(response.sources) :
              /\ ~Falsy(relevantChunks[i].similarity)
              /\ response.sources[i].confidence = relevantChunks[i].similarity
              /\ response.sources[i].confidence = Scored(relevantChunks[i].id)
              /\ FGreater(response.sources[i].confidence, Threshold)
\* an Answer with two sources of different confidence, neither of them 0.8
C23_Witness ==
    /\ Answered
    /\ Len(response.sources) >= 2
    /\ response.sources[1].confidence # response.sources[2].confidence
    /\ \A i \in 1..Len(response.sources) : response.sources[i].confidence # DefaultConfidence

\* the embedding call was made and gave no embedding
EmbeddingFailed == pc = "done" /\ calls.embed = 1 /\ questionEmbedding = <<>>
\* the corpus read was made and searchDocuments did not return
RetrievalFailed == pc = "done" /\ calls.corpus = 1 /\ ~RetrievalReturned

AuditRecord == [question |-> question.text, response |-> response.answer,
                sources |-> response.sources, confidence |-> response.confidence]

\* C28: an Answer returned by the callable, the refusal included, has been
\* recorded in ai_interactions with its question, answer, sources and
\* confidence; when the audit write failed the call failed.
C28_RecordedBeforeReturned ==
    /\ Answered => (ai_interactions # <<>> /\ ai_interactions[Len(ai_interactions)] = AuditRecord)
    /\ (pc = "done" /\ calls.audit = 1 /\ ai_interactions = <<>>) => outcome = "internal"
\* the refusal was returned and is on record
C28_Witness == Refused /\ ai_interactions = <<AuditRecord>> /\ Len(corpus) > 0

\* the double after 1, 1 + 2^-52, and the tolerance bounds 1 + 2^-51 and
\* 1 - 2^-51 (three roundings of 2^-53 each, one of them squared)
OnePlusUlp == [cls |-> "num", neg |-> FALSE, m |-> <<1, 0, 0, 0, 1>>, e |-> -52]
OnePlusTol == [cls |-> "num", neg |-> FALSE, m |-> <<2, 0, 0, 0, 1>>, e |-> -52]
OneMinusTol == [cls |-> "num", neg |-> FALSE, m |-> <<8188, 8191, 8191, 8191, 1>>, e |-> -53]
NearOne(x) == x.cls = "num" /\ FCmp(x, OneMinusTol) >= 0 /\ FCmp(x, OnePlusTol) <= 0
\* the scored chunks whose embedding has the length of the query embedding
SameLength == {i \in 1..Len(scoredChunks) : Len(scoredChunks[i].embedding) = Len(questionEmbedding)}

\* C22 as stated: the similarity of query and chunk is the same in both
\* orders, and a chunk whose non-zero embedding is the query embedding
\* scores exactly 1.
C22_SymmetricAndExactlyOne ==
    RetrievalReturned =>
        \A i \in SameLength :
            /\ scoredChunks[i].similarity = Similarity(scoredChunks[i].embedding, questionEmbedding)
            /\ (scoredChunks[i].embedding = questionEmbedding /\ questionEmbedding # ZeroVector)
                  => scoredChunks[i].similarity = One
\* C22 amended: the similarity of query and chunk is the same in both
\* orders, and a chunk whose non-zero embedding is the query embedding
\* scores 1 to within 2^-51.
C22_SymmetricAndNearOne ==
    RetrievalReturned =>
        \A i \in SameLength :
            /\ scoredChunks[i].similarity = Similarity(scoredChunks[i].embedding, questionEmbedding)
            /\ (scoredChunks[i].embedding = questionEmbedding /\ questionEmbedding # ZeroVector)
                  => NearOne(scoredChunks[i].similarity)
\* a chunk with the query's embedding scored 1 + 2^-52 next to a chunk with
\* another embedding of the same length
C22_Witness ==
    /\ RetrievalReturned
    /\ \E i, j \in SameLength :
          /\ scoredChunks[i].embedding = questionEmbedding
          /\ scoredChunks[i].similarity = OnePlusUlp
          /\ scoredChunks[j].embedding \notin {questionEmbedding, ZeroVector}
          /\ scoredChunks[j].similarity.cls = "num"

\* C27: the snippet of every source is the first min(200, length)
\* characters of its chunk's content followed by "...", so it is never
\* longer than 203 characters.
C27_SnippetTruncated ==
    AnswerReturned =>
        \A i \in 1..Len(response.sources) :
            LET kept == IF Len(relevantChunks[i].content) < 200
                        THEN Len(relevantChunks[i].content) ELSE 200
            IN  /\ Len(response.sources[i].snippet) = kept + 3
                /\ Len(response.sources[i].snippet) <= 203
                /\ \A k \in 1..kept :
                      response.sources[i].snippet[k] = relevantChunks[i].content[k]
                /\ \A k \in 1..3 : response.sources[i].snippet[kept + k] = "."
\* a content of more than 200 characters was cut to a snippet of 203
C27_Witness ==
    /\ AnswerReturned
    /\ Len(response.sources) = 1
    /\ Len(relevantChunks[1].content) > 200
    /\ Len(response.sources[1].snippet) = 203

\* the model has been called with a prompt
Prompted == prompt # NoPrompt
\* the positions of the prompt that hold a retrieved source, and the
\* conversation context
SourceParts == {n \in 1..Len(prompt) : prompt[n].kind = "source"}
ContextParts == {n \in 1..Len(prompt) : prompt[n].kind = "context"}

\* C25: the prompt holds the grounding rules, then the retrieved chunks in
\* rank order, each once, labelled with its rank and carrying its title and
\* its unaltered content, then the conversation context if and only if one
\* was passed, then the question as asked; no other chunk is in it.
C25_PromptOrder ==
    Prompted =>
        /\ prompt[1].kind = "rules" /\ prompt[1].text = GROUNDING_RULES
        /\ SourceParts = {n + 1 : n \in 1..Len(relevantChunks)}
        /\ \A n \in 1..Len(relevantChunks) :
              /\ prompt[n + 1].label = n
              /\ prompt[n + 1].title = relevantChunks[n].title
              /\ prompt[n + 1].text = relevantChunks[n].content
              /\ relevantChunks[n].content = corpus[relevantChunks[n].id].content
        /\ ContextParts = IF client.context = <<>> THEN {} ELSE {Len(relevantChunks) + 2}
        /\ \A n \in ContextParts : prompt[n].text = client.context
        /\ \E n \in 1..Len(prompt) :
              /\ prompt[n].kind = "question"
              /\ prompt[n].text = question.text
              /\ n = Len(relevantChunks) + Cardinality(ContextParts) + 2
        /\ Len(prompt) = Len(relevantChunks) + Cardinality(ContextParts) + 3
\* a prompt with four sources and a conversation context
C25_Witness ==
    /\ Prompted
    /\ Cardinality(SourceParts) = 4
    /\ Cardinality(ContextParts) = 1
    /\ pc = "generating"

\* C26: the context that processMessage passes on holds the last 5 messages
\* of the conversation (3 in the local-analysis variant), or all when there
\* are fewer, in their order, each as "speaker: message"; the context in the
\* prompt is that context, whatever the length of the conversation.
C26_BoundedWindow ==
    client.stage # "absent" =>
        LET window == IF client.variant = "cloud" THEN 5 ELSE 3
            size == Len(client.context)
            skipped == Len(client.history) - Len(client.context)
        IN  /\ size = (IF Len(client.history) < window THEN Len(client.history) ELSE window)
            /\ \A i \in 1..size :
                  client.context[i] = <<client.history[skipped + i].speaker, ": ",
                                        client.history[skipped + i].message>>
            /\ Prompted => \A n \in ContextParts : prompt[n].text = client.context
\* a conversation of seven messages, of which five are in the prompt
C26_Witness ==
    /\ Prompted
    /\ Len(client.history) = 7
    /\ \E n \in ContextParts : Len(prompt[n].text) = 5 /\ prompt[n].text[1][3] = <<"message", 3>>

\* C29: the sources of an Answer are as many as the retrieved chunks, and
\* source N is made from the chunk that the prompt labels "[Source N]".
C29_CitationAlignment ==
    (AnswerReturned /\ response.sources # <<>>) =>
        /\ Len(response.sources) = Len(relevantChunks)
        /\ \A n \in 1..Len(response.sources) :
              /\ prompt[n + 1].kind = "source"
              /\ prompt[n + 1].label = n
              /\ prompt[n + 1].title = response.sources[n].title
              /\ prompt[n + 1].text = corpus[relevantChunks[n].id].content
              /\ response.sources[n].title = corpus[relevantChunks[n].id].title
              /\ response.sources[n].url = corpus[relevantChunks[n].id].url
              /\ response.sources[n].confidence = relevantChunks[n].similarity
\* an Answer with five sources of different titles
C29_Witness ==
    /\ Answered
    /\ Len(response.sources) = 5
    /\ Cardinality({response.sources[n].title : n \in 1..5}) = 5

\* the chunks in the corpus that were made from the document
ChunksOfDocument == {i \in 1..Len(corpus) : corpus[i].documentId = DocumentId}

\* C21: once deleteDocument has completed no chunk of the document is in
\* the corpus, and a chunk that is in the corpus is never changed.
C21_ChunksFollowDocument ==
    /\ [](documents.state = "deleted" => ChunksOfDocument = {})
    /\ [][\A i \in 1..Len(corpus) : i <= Len(corpus') /\ corpus'[i] = corpus[i]]_vars

\* C30: with the trigger and the callable both processing an uploaded
\* document, and no further call of the callable, no two chunks in the
\* corpus have the same documentId and chunkIndex.
C30_SingleIngestion ==
    documents.reruns = 0 =>
        \A i, j \in 1..Len(corpus) :
            (corpus[i].documentId = corpus[j].documentId
                /\ corpus[i].chunkIndex = corpus[j].chunkIndex) => i = j
====
